---- MODULE Spec2Model ----
(***************************************************************************)
(* hellfire: an incremental static-site build for a blog (src/hellfire.py) *)
(*                                                                         *)
(* Texts.  A text is a sequence of chunks.  A chunk is a colon ":", a      *)
(* whitespace character (" " or "\n"), or a run of characters holding      *)
(* neither.  All texts of the model are written over one vocabulary of     *)
(* chunks, so two texts are equal exactly when their chunk sequences are.  *)
(* Python's None is the empty tuple <<>> and a present value v is <<v>>.   *)
(*                                                                         *)
(* Time.  The file system stamps files with the clock `now`; one tick of   *)
(* the clock is one day.                                                   *)
(***************************************************************************)
EXTENDS Integers, Sequences, FiniteSets, TLC

(* ---------------------------------------------------------------------- *)
(* Bounds of the model                                                     *)
(* ---------------------------------------------------------------------- *)
\* the clock runs from 0 to MaxTime
MaxTime == 1
\* number of build processes started in one behaviour
MaxRuns == 2
\* number of changes the author makes between two builds
MaxEdits == 1
\* number of lines of a post.md drawn for the extraction specification
MaxLines == 4
\* number of sources handed to is_done in the oracle specification
MaxSrcs == 3
\* modification times run from 0 to MaxStamp in the oracle specification
MaxStamp == 2

(* ---------------------------------------------------------------------- *)
(* Python values                                                           *)
(* ---------------------------------------------------------------------- *)
None == << >>
Some(v) == << v >>

Whitespace == {" ", "\n"}

DATE_FORMAT == <<"%d", " ", "%b", ",", " ", "%Y">>

\* str.strip(): whitespace removed on both ends
RECURSIVE lstrip(_)
lstrip(s) == IF s # << >> /\ Head(s) \in Whitespace THEN lstrip(Tail(s)) ELSE s
RECURSIVE rstrip(_)
rstrip(s) ==
    IF s # << >> /\ s[Len(s)] \in Whitespace
    THEN rstrip(SubSeq(s, 1, Len(s) - 1))
    ELSE s
\* strip that leaves the end of the line alone
strip_left_only(s) == lstrip(s)
strip(s) == rstrip(lstrip(s))

\* str.split(":"): the list of the parts between ALL the colons
FirstColon(s) == CHOOSE i \in 1..Len(s) : s[i] = ":" /\ \A j \in 1..(i - 1) : s[j] # ":"
\* a split that, like str.partition, always yields a key and a value
split_partition(s) ==
    IF \A i \in 1..Len(s) : s[i] # ":"
    THEN << s, << >> >>
    ELSE << SubSeq(s, 1, FirstColon(s) - 1), SubSeq(s, FirstColon(s) + 1, Len(s)) >>

RECURSIVE split(_)
split(s) ==
    IF \A i \in 1..Len(s) : s[i] # ":"
    THEN << s >>
    ELSE << SubSeq(s, 1, FirstColon(s) - 1) >>
         \o split(SubSeq(s, FirstColon(s) + 1, Len(s)))

\* str.startswith(prefix)
startswith(s, prefix) ==
    Len(s) >= Len(prefix) /\ SubSeq(s, 1, Len(prefix)) = prefix

(* ---------------------------------------------------------------------- *)
(* Dates                                                                   *)
(* ---------------------------------------------------------------------- *)
\* datetime.strptime(value, "%Y-%m-%d") on the date texts of the model;
\* any other text raises ValueError
DateTexts ==
    [ t \in {"2024-01-02", "2024-01-15", "2024-02-20", "2024-03-01"} |->
        CASE t = "2024-01-02" -> [y |-> 2024, m |-> 1, d |-> 2]
          [] t = "2024-01-15" -> [y |-> 2024, m |-> 1, d |-> 15]
          [] t = "2024-02-20" -> [y |-> 2024, m |-> 2, d |-> 20]
          [] t = "2024-03-01" -> [y |-> 2024, m |-> 3, d |-> 1] ]
strptime_ok(value) == Len(value) = 1 /\ value[1] \in DOMAIN DateTexts
strptime(value) == DateTexts[value[1]]

\* datetime.fromtimestamp(mtime): tick 0 is 2024-01-30, one tick is one day
fromtimestamp(t) ==
    IF 30 + t <= 31
    THEN [y |-> 2024, m |-> 1, d |-> 30 + t]
    ELSE [y |-> 2024, m |-> 2, d |-> 30 + t - 31]

\* chronological order of two dates
DateBefore(a, b) ==
    \/ a.y < b.y
    \/ a.y = b.y /\ a.m < b.m
    \/ a.y = b.y /\ a.m = b.m /\ a.d < b.d

\* character codes of the formatted date
Digit(n) == 48 + n
MonthAbbr ==
    << <<74, 97, 110>>, <<70, 101, 98>>, <<77, 97, 114>>, <<65, 112, 114>>,
       <<77, 97, 121>>, <<74, 117, 110>>, <<74, 117, 108>>, <<65, 117, 103>>,
       <<83, 101, 112>>, <<79, 99, 116>>, <<78, 111, 118>>, <<68, 101, 99>> >>
\* datetime.strftime(date, DATE_FORMAT) = "%d %b, %Y", as character codes
strftime(date) ==
    << Digit(date.d \div 10), Digit(date.d % 10), 32 >>
    \o MonthAbbr[date.m]
    \o << 44, 32 >>
    \o << Digit(date.y \div 1000), Digit((date.y \div 100) % 10),
          Digit((date.y \div 10) % 10), Digit(date.y % 10) >>

\* Python's order of two strings: by the first character that differs
RECURSIVE StrLess(_, _)
StrLess(a, b) ==
    IF b = << >> THEN FALSE
    ELSE IF a = << >> THEN TRUE
    ELSE IF Head(a) # Head(b) THEN Head(a) < Head(b)
    ELSE StrLess(Tail(a), Tail(b))

(* ---------------------------------------------------------------------- *)
(* Files                                                                   *)
(* ---------------------------------------------------------------------- *)
NoFile == [exists |-> FALSE, mtime |-> 0, body |-> << >>]
File(t, b) == [exists |-> TRUE, mtime |-> t, body |-> b]

Posts == {"a", "b", "c"}
Fields == {"title", "date", "description", "image"}

\* config["url"]
BaseUrl == <<"https", ":", "//", "blog.example">>
HttpsPrefix == <<"https", ":", "//">>
NoTitle == <<"No title available">>

\* the lines of the model's post.md files
L_delim == <<"---", "\n">>
L_title == <<"title", ":", " ", "Hello", "\n">>
L_date == <<"date", ":", " ", "2024-01-02", "\n">>
L_descr == <<"description", ":", " ", "Hi", "\n">>
L_image == <<"image", ":", " ", "pic.png", "\n">>
L_https == <<"image", ":", " ", "https", ":", "//", "cdn/pic.png", "\n">>
L_colons == <<"title", ":", " ", "A", ":", " ", "B", "\n">>
L_tag == <<"tag", ":", " ", "x", "\n">>
L_text == <<"Some", " ", "text", "\n">>
L_blank == <<"\n">>
L_dated(t) == <<"date", ":", " ", t, "\n">>

(* ---------------------------------------------------------------------- *)
(* load_post_metadata                                                      *)
(* ---------------------------------------------------------------------- *)
PostMetadata ==
    [title |-> None, date |-> None, description |-> None, image |-> None,
     other |-> {}]

\* lines 131-147: one key/value line inside the frontmatter block.
\* The result is the loop state; exc names the exception raised, if any.
store_line(st, post, line) ==
    LET parts == split(line) IN
    IF Len(parts) # 2
    THEN [st EXCEPT !.exc = "ValueError"]
    ELSE
    LET key == strip(parts[1])
        value == strip(parts[2])
    IN
    IF key = <<"date">>
    THEN IF strptime_ok(value)
         THEN [st EXCEPT !.meta.date = Some(strptime(value))]
         ELSE [st EXCEPT !.exc = "ValueError"]
    ELSE IF key = <<"title">>
    THEN [st EXCEPT !.meta.title = Some(value)]
    ELSE IF key = <<"description">>
    THEN [st EXCEPT !.meta.description = Some(value)]
    ELSE IF key = <<"image">>
    THEN [st EXCEPT !.meta.image =
             Some(IF ~startswith(value, HttpsPrefix)
                  THEN BaseUrl \o <<"/posts/", post, "/">> \o value
                  ELSE value)]
    ELSE [st EXCEPT !.meta.other =
             {kv \in @ : kv[1] # key} \cup {<<key, value>>}]

\* a loop that skips the lines before the first "---" instead of stopping
RECURSIVE parse_lines_skip_preamble(_, _, _, _)
parse_lines_skip_preamble(st, post, lines, i) ==
    IF i > Len(lines) \/ st.exc # "none"
    THEN st
    ELSE
    LET line == strip(lines[i]) IN
    IF line = <<"---">>
    THEN IF st.in_frontmatter
         THEN st
         ELSE parse_lines_skip_preamble([st EXCEPT !.in_frontmatter = TRUE],
                                        post, lines, i + 1)
    ELSE IF ~st.in_frontmatter
    THEN parse_lines_skip_preamble(st, post, lines, i + 1)
    ELSE parse_lines_skip_preamble(store_line(st, post, line), post, lines, i + 1)

\* lines 120-147: the for loop over the stripped lines
RECURSIVE parse_lines(_, _, _, _)
parse_lines(st, post, lines, i) ==
    IF i > Len(lines) \/ st.exc # "none"
    THEN st
    ELSE
    LET line == strip(lines[i]) IN
    IF line = <<"---">>
    THEN IF st.in_frontmatter
         THEN st
         ELSE parse_lines([st EXCEPT !.in_frontmatter = TRUE], post, lines, i + 1)
    ELSE IF ~st.in_frontmatter
    THEN st
    ELSE parse_lines(store_line(st, post, line), post, lines, i + 1)

\* fill_blanks without the date fallback of lines 155-157
fill_blanks_no_date(meta, mtime) ==
    [meta |->
        [title |-> IF meta.title = None THEN Some(NoTitle) ELSE meta.title,
         date |-> meta.date,
         description |-> IF meta.description = None THEN Some(<< >>) ELSE meta.description,
         image |-> IF meta.image = None THEN Some(<< >>) ELSE meta.image,
         other |-> meta.other],
     warned |-> {f \in Fields \ {"date"} : meta[f] = None}]

\* lines 149-167: fill in the blanks with warnings
fill_blanks(meta, mtime) ==
    [meta |->
        [title |-> IF meta.title = None THEN Some(NoTitle) ELSE meta.title,
         date |-> IF meta.date = None THEN Some(fromtimestamp(mtime)) ELSE meta.date,
         description |-> IF meta.description = None THEN Some(<< >>) ELSE meta.description,
         image |-> IF meta.image = None THEN Some(<< >>) ELSE meta.image,
         other |-> meta.other],
     warned |-> {f \in Fields : meta[f] = None}]

\* lines 111-169: the body of load_post_metadata (a cache miss).
\* exc: "none", or the exception that leaves the function;
\* warned: the fields a warning was printed for.
load_post_metadata(post, file) ==
    IF ~file.exists
    THEN [exc |-> "FileNotFoundError", meta |-> PostMetadata, warned |-> {}]
    ELSE
    LET st == parse_lines([meta |-> PostMetadata, in_frontmatter |-> FALSE,
                           exc |-> "none"], post, file.body, 1)
        filled == fill_blanks(st.meta, file.mtime)
    IN
    IF st.exc # "none"
    THEN [exc |-> st.exc, meta |-> st.meta, warned |-> {}]
    ELSE [exc |-> "none", meta |-> filled.meta, warned |-> filled.warned]

(* ---------------------------------------------------------------------- *)
(* functools.lru_cache around load_post_metadata                           *)
(* ---------------------------------------------------------------------- *)
\* lru_cache(maxsize=512).  The model scales the capacity down to 2, so that
\* a site of three posts is a site of more posts than the cache holds.
maxsize == 2

\* The cache is the sequence of its entries, least recently used first.  The
\* key is (src, post, base_url); src and base_url are the same in every call
\* of one process, which leaves the post.
CacheIndex(c, post) == CHOOSE i \in 1..Len(c) : c[i].key = post
Without(c, i) == SubSeq(c, 1, i - 1) \o SubSeq(c, i + 1, Len(c))
lru_put(c, e) ==
    IF Len(c) + 1 > maxsize THEN Append(Tail(c), e) ELSE Append(c, e)

\* One call of the decorated function: a hit returns the stored value and
\* prints nothing; a miss runs the body and stores what it returns; an
\* exception stores nothing.
cached_load(c, post, file) ==
    IF \E i \in 1..Len(c) : c[i].key = post
    THEN [cache |-> Append(Without(c, CacheIndex(c, post)), c[CacheIndex(c, post)]),
          exc |-> "none",
          meta |-> c[CacheIndex(c, post)].val,
          warned |-> {}]
    ELSE LET r == load_post_metadata(post, file) IN
         [cache |-> IF r.exc = "none"
                    THEN lru_put(c, [key |-> post, val |-> r.meta])
                    ELSE c,
          exc |-> r.exc,
          meta |-> r.meta,
          warned |-> r.warned]

(* ---------------------------------------------------------------------- *)
(* is_done and copy_files                                                  *)
(* ---------------------------------------------------------------------- *)
\* lines 67-72: the loop over the sources; os.path.getmtime of a missing
\* source raises
RECURSIVE is_done_loop(_, _, _)
is_done_loop(dst_mtime, args, i) ==
    IF i > Len(args) THEN "True"
    ELSE IF ~args[i].exists THEN "FileNotFoundError"
    ELSE IF dst_mtime < args[i].mtime THEN "False"
    ELSE is_done_loop(dst_mtime, args, i + 1)

\* is_done with the comparison of line 69 turned into <=
RECURSIVE is_done_loop_strict(_, _, _)
is_done_loop_strict(dst_mtime, args, i) ==
    IF i > Len(args) THEN "True"
    ELSE IF ~args[i].exists THEN "FileNotFoundError"
    ELSE IF dst_mtime <= args[i].mtime THEN "False"
    ELSE is_done_loop_strict(dst_mtime, args, i + 1)
is_done_strict(dst, args) ==
    IF ~dst.exists THEN "False" ELSE is_done_loop_strict(dst.mtime, args, 1)

\* is_done with the return of line 72 inside the loop: only the first
\* source is compared
is_done_first_only(dst, args) ==
    IF ~dst.exists THEN "False"
    ELSE is_done_loop(dst.mtime, SubSeq(args, 1, 1), 1)

\* lines 62-72
is_done(dst, args) ==
    IF ~dst.exists THEN "False" ELSE is_done_loop(dst.mtime, args, 1)

\* lines 89-96 for one file of the listing: the destination file afterwards.
\* shutil.copyfile copies the bytes and stamps the copy with the clock.
copy_file(srcFile, dstFile, t) ==
    IF ~srcFile.exists THEN dstFile
    ELSE IF is_done(dstFile, <<srcFile>>) = "True" THEN dstFile
    ELSE File(t, srcFile.body)

\* copy_files that forgets its exceptions
copy_files_all(srcFiles, dstFiles, exceptions, t) ==
    [f \in DOMAIN dstFiles |-> copy_file(srcFiles[f], dstFiles[f], t)]

\* lines 81-96: copy_files over a flat directory.  A directory is a function
\* from the file names of the model to files; the result is the destination
\* directory afterwards.
copy_files(srcFiles, dstFiles, exceptions, t) ==
    [f \in DOMAIN dstFiles |->
        IF f \in exceptions THEN dstFiles[f]
        ELSE copy_file(srcFiles[f], dstFiles[f], t)]

(* ---------------------------------------------------------------------- *)
(* compile_home helpers                                                    *)
(* ---------------------------------------------------------------------- *)
\* lines 190-192
\* a preview whose link lacks the trailing slash
PostPreview_no_slash(post, meta) ==
    [title |-> meta.title[1],
     date |-> strftime(meta.date[1]),
     url |-> <<"posts/", post>>]

PostPreview(post, meta) ==
    [title |-> meta.title[1],
     date |-> strftime(meta.date[1]),
     url |-> <<"posts/", post, "/">>]

\* line 195: previews.sort(key=lambda p: p.date), a stable sort on the
\* formatted date string
RECURSIVE insert_sorted(_, _)
insert_sorted(s, x) ==
    IF s = << >> THEN << x >>
    ELSE IF StrLess(x.date, Head(s).date) THEN << x >> \o s
    ELSE << Head(s) >> \o insert_sorted(Tail(s), x)
RECURSIVE sort_previews(_)
sort_previews(s) ==
    IF s = << >> THEN << >>
    ELSE insert_sorted(sort_previews(SubSeq(s, 1, Len(s) - 1)), s[Len(s)])

\* lines 259-265: the variables bound into post.template
render_post(post, meta) ==
    [content |-> <<"html", post>>,
     title |-> meta.title[1],
     description |-> meta.description[1],
     image |-> meta.image[1],
     date |-> strftime(meta.date[1])]

\* a returncode test that never sees a failure
pandoc_failed_never(returncode) == FALSE
\* line 246: pandoc.returncode != 0
pandoc_failed(returncode) == returncode # 0

(* ---------------------------------------------------------------------- *)
(* verify_setup and load_config                                            *)
(* ---------------------------------------------------------------------- *)
\* lines 16-44: how the function ends and whether dst is a directory then.
\* had_error is never set, so a missing required file only prints.
verify_setup(e, dstIsDir) ==
    IF ~e.pandoc THEN [end |-> "exit1", dst |-> dstIsDir]
    ELSE IF ~e.srcdir THEN [end |-> "raised", dst |-> dstIsDir]
    ELSE [end |-> "none", dst |-> TRUE]

\* load_config without the test of line 54
load_config_any(e) ==
    IF e.config = "missing" THEN "exit1" ELSE "none"

\* lines 47-58
load_config(e) ==
    IF e.config = "missing" THEN "exit1"
    ELSE IF e.config = "nourl" THEN "exit1"
    ELSE "none"

\* a build that deletes the destination whether --clean is given or not
wipes_always(c, dstExists) == dstExists
\* line 292: args.clean and os.path.exists(args.out)
wipes(c, dstExists) == c /\ dstExists

(* ---------------------------------------------------------------------- *)
(* State                                                                   *)
(* ---------------------------------------------------------------------- *)
VARIABLES
    now,          \* the clock
    env,          \* pandoc on the path, source directory, config.toml
    entry,        \* entries of <src>/posts: "dir", "file" or "absent"
    md,           \* <src>/posts/<p>/post.md
    asset,        \* <src>/posts/<p>/pic.png, a co-located asset
    template,     \* <src>/post.template
    style,        \* <src>/style.css, a static file of the source root
    dstDir,       \* <dst> is a directory
    index,        \* <dst>/index.html
    outStyle,     \* <dst>/style.css
    postsDir,     \* <dst>/posts is a directory
    htmlDir,      \* <dst>/posts/<p> is a directory
    page,         \* <dst>/posts/<p>/index.html
    outAsset,     \* <dst>/posts/<p>/pic.png
    outMd,        \* <dst>/posts/<p>/post.md
    pc,           \* where the build process is; its memory is freed when it ends
    run,          \* number of build processes started
    clean,        \* args.clean of the current process
    todo,         \* entries of the listing the current loop has not reached
    previews,     \* compile_home's list
    cache,        \* the lru_cache of load_post_metadata
    warn,         \* warnings printed by this process, per post and field
    conv,         \* pandoc's outcome per post in this process
    outcome,      \* where compile_post left each post in this process
    edits,        \* changes made to the sources since the last build started
    same,         \* this build started with the sources the previous one had
    prevOutcome,  \* outcome of the previous process
    pre,          \* the pages as they were when this process started
    preTree,      \* the destination tree as it was when this process started
    call          \* the call of a function under test: arguments and result

srcVars == <<env, entry, md, asset, template, style>>
dstVars == <<dstDir, index, outStyle, postsDir, htmlDir, page, outAsset, outMd>>
procVars == <<pc, run, clean, todo, previews, cache, warn, conv, outcome>>
histVars == <<edits, same, prevOutcome, pre, preTree>>
vars == <<now, srcVars, dstVars, procVars, histVars, call>>

Stopped == {"idle", "done", "exit1", "raised"}

NoWarnings == [p \in Posts |-> [f \in Fields |-> 0]]
NoOutcome == [p \in Posts |-> "none"]

\* the file names of a post directory
PostFiles == {"post.md", "pic.png"}

\* os.listdir(src/posts) filtered by os.path.isdir (lines 183-184, 284-285)
listing == {p \in Posts : entry[p] = "dir"}

NoCall == [fn |-> "none", args |-> << >>, ret |-> << >>]

(* ---------------------------------------------------------------------- *)
(* The build process                                                       *)
(* ---------------------------------------------------------------------- *)
\* lines 290-299 and line 183: build() up to the listing of compile_home
build(c) ==
    /\ pc \in Stopped
    /\ run < MaxRuns
    /\ LET wiped == wipes(c, dstDir)
           setup == verify_setup(env, IF wiped THEN FALSE ELSE dstDir)
           end == IF setup.end # "none" THEN setup.end ELSE load_config(env)
       IN
       /\ dstDir' = setup.dst
       /\ index' = IF wiped THEN NoFile ELSE index
       /\ outStyle' = IF wiped THEN NoFile ELSE outStyle
       /\ postsDir' = IF wiped THEN FALSE ELSE postsDir
       /\ htmlDir' = IF wiped THEN [p \in Posts |-> FALSE] ELSE htmlDir
       /\ page' = IF wiped THEN [p \in Posts |-> NoFile] ELSE page
       /\ outAsset' = IF wiped THEN [p \in Posts |-> NoFile] ELSE outAsset
       /\ outMd' = IF wiped THEN [p \in Posts |-> NoFile] ELSE outMd
       /\ pc' = IF end = "none" THEN "home" ELSE end
       /\ todo' = IF end = "none" THEN listing ELSE {}
    /\ run' = run + 1
    /\ clean' = c
    /\ previews' = << >>
    /\ cache' = << >>
    /\ warn' = NoWarnings
    /\ conv' = NoOutcome
    /\ outcome' = NoOutcome
    /\ same' = (edits = 0)
    /\ edits' = 0
    /\ prevOutcome' = outcome
    /\ pre' = page
    /\ preTree' = dstVars
    /\ UNCHANGED <<now, srcVars, call>>

\* lines 187-193: one iteration of compile_home's loop
home_iter(post) ==
    /\ pc = "home"
    /\ post \in todo
    /\ LET r == cached_load(cache, post, md[post]) IN
       IF r.exc # "none"
       THEN /\ pc' = "raised"
            /\ todo' = {}
            /\ previews' = << >>
            /\ cache' = << >>
            /\ UNCHANGED warn
       ELSE /\ pc' = pc
            /\ todo' = todo \ {post}
            /\ previews' = Append(previews, PostPreview(post, r.meta))
            /\ cache' = r.cache
            /\ warn' = [warn EXCEPT ![post] =
                          [f \in Fields |-> IF f \in r.warned THEN @[f] + 1 ELSE @[f]]]
    /\ UNCHANGED <<now, srcVars, dstVars, run, clean, conv, outcome, histVars, call>>

\* lines 195-212 and 270-285: the end of compile_home and compile_posts up
\* to its listing
home_finish ==
    /\ pc = "home"
    /\ todo = {}
    /\ index' = File(now, sort_previews(previews))
    /\ previews' = << >>
    /\ outStyle' = copy_file(style, outStyle, now)
    /\ postsDir' = TRUE
    /\ pc' = "posts"
    /\ todo' = listing
    /\ UNCHANGED <<now, srcVars, dstDir, htmlDir, page, outAsset, outMd, run,
                   clean, cache, warn, conv, outcome, histVars, call>>

\* lines 215-266: compile_post; rc is pandoc's exit code if it is run
compile_post(post, rc) ==
    /\ pc = "posts"
    /\ post \in todo
    /\ htmlDir' = [htmlDir EXCEPT ![post] = TRUE]
    /\ LET copied == copy_files([f \in PostFiles |->
                                    IF f = "post.md" THEN md[post] ELSE asset[post]],
                                [f \in PostFiles |->
                                    IF f = "post.md" THEN outMd[post] ELSE outAsset[post]],
                                {"post.md"}, now)
       IN /\ outAsset' = [outAsset EXCEPT ![post] = copied["pic.png"]]
          /\ outMd' = [outMd EXCEPT ![post] = copied["post.md"]]
    /\ LET done == is_done(page[post], <<md[post], template>>)
           code == IF md[post].exists THEN rc ELSE 1
           r == cached_load(cache, post, md[post])
       IN
       IF done = "FileNotFoundError"
       THEN /\ pc' = "raised"
            /\ todo' = {}
            /\ cache' = << >>
            /\ UNCHANGED <<page, warn, conv, outcome>>
       ELSE IF done = "True"
       THEN /\ outcome' = [outcome EXCEPT ![post] = "Skipped"]
            /\ todo' = todo \ {post}
            /\ UNCHANGED <<pc, page, cache, warn, conv>>
       ELSE IF pandoc_failed(code)
       THEN /\ conv' = [conv EXCEPT ![post] = IF code = 0 THEN "ok" ELSE "fail"]
            /\ outcome' = [outcome EXCEPT ![post] = "Failed"]
            /\ todo' = todo \ {post}
            /\ UNCHANGED <<pc, page, cache, warn>>
       ELSE IF r.exc # "none"
       THEN /\ conv' = [conv EXCEPT ![post] = IF code = 0 THEN "ok" ELSE "fail"]
            /\ pc' = "raised"
            /\ todo' = {}
            /\ cache' = << >>
            /\ UNCHANGED <<page, warn, outcome>>
       ELSE /\ conv' = [conv EXCEPT ![post] = IF code = 0 THEN "ok" ELSE "fail"]
            /\ cache' = r.cache
            /\ warn' = [warn EXCEPT ![post] =
                          [f \in Fields |-> IF f \in r.warned THEN @[f] + 1 ELSE @[f]]]
            /\ page' = [page EXCEPT ![post] = File(now, render_post(post, r.meta))]
            /\ outcome' = [outcome EXCEPT ![post] = "Written"]
            /\ todo' = todo \ {post}
            /\ pc' = pc
    /\ UNCHANGED <<now, srcVars, dstDir, index, outStyle, postsDir, run, clean,
                   previews, histVars, call>>

\* lines 286-287 and 305: the loop of compile_posts is over; build returns
build_return ==
    /\ pc = "posts"
    /\ todo = {}
    /\ pc' = "done"
    /\ cache' = << >>
    /\ UNCHANGED <<now, srcVars, dstVars, run, clean, todo, previews, warn,
                   conv, outcome, histVars, call>>

(* ---------------------------------------------------------------------- *)
(* The environment                                                         *)
(* ---------------------------------------------------------------------- *)
\* the clock advances between two builds: a build is short against a tick
tick ==
    /\ pc \in Stopped
    /\ run < MaxRuns
    /\ now < MaxTime
    /\ now' = now + 1
    /\ UNCHANGED <<srcVars, dstVars, procVars, histVars, call>>

\* the author saves post.md again while no build runs
touch_post(post) ==
    /\ pc \in Stopped
    /\ run < MaxRuns
    /\ edits < MaxEdits
    /\ md[post].exists
    /\ md[post].mtime < now
    /\ md' = [md EXCEPT ![post].mtime = now]
    /\ edits' = edits + 1
    /\ UNCHANGED <<now, env, entry, asset, template, style, dstVars, procVars,
                   same, prevOutcome, pre, preTree, call>>

\* pandoc, the source directory or config.toml changes while no build runs
set_env(e) ==
    /\ pc \in Stopped
    /\ run < MaxRuns
    /\ edits < MaxEdits
    /\ e # env
    /\ env' = e
    /\ edits' = edits + 1
    /\ UNCHANGED <<now, entry, md, asset, template, style, dstVars, procVars,
                   same, prevOutcome, pre, preTree, call>>

\* the author saves post.template again while no build runs
touch_template ==
    /\ pc \in Stopped
    /\ run < MaxRuns
    /\ edits < MaxEdits
    /\ template.mtime < now
    /\ template' = [template EXCEPT !.mtime = now]
    /\ edits' = edits + 1
    /\ UNCHANGED <<now, env, entry, md, asset, style, dstVars, procVars,
                   same, prevOutcome, pre, preTree, call>>

\* the author saves a co-located asset again while no build runs
touch_asset(post) ==
    /\ pc \in Stopped
    /\ run < MaxRuns
    /\ edits < MaxEdits
    /\ asset[post].exists
    /\ asset[post].mtime < now
    /\ asset' = [asset EXCEPT ![post].mtime = now]
    /\ edits' = edits + 1
    /\ UNCHANGED <<now, env, entry, md, template, style, dstVars, procVars,
                   same, prevOutcome, pre, preTree, call>>

\* the author deletes a co-located asset while no build runs
remove_asset(post) ==
    /\ pc \in Stopped
    /\ run < MaxRuns
    /\ edits < MaxEdits
    /\ asset[post].exists
    /\ asset' = [asset EXCEPT ![post] = NoFile]
    /\ edits' = edits + 1
    /\ UNCHANGED <<now, env, entry, md, template, style, dstVars, procVars,
                   same, prevOutcome, pre, preTree, call>>

\* the author deletes a post directory while no build runs
remove_post(post) ==
    /\ pc \in Stopped
    /\ run < MaxRuns
    /\ edits < MaxEdits
    /\ entry[post] = "dir"
    /\ entry' = [entry EXCEPT ![post] = "absent"]
    /\ md' = [md EXCEPT ![post] = NoFile]
    /\ asset' = [asset EXCEPT ![post] = NoFile]
    /\ edits' = edits + 1
    /\ UNCHANGED <<now, env, template, style, dstVars, procVars,
                   same, prevOutcome, pre, preTree, call>>

(* ---------------------------------------------------------------------- *)
(* The site specification: whole builds of a small site                    *)
(* ---------------------------------------------------------------------- *)
DocEmpty == <<L_delim, L_delim, L_text>>
DocBad == <<L_delim, L_text, L_delim>>
DocBlank == <<L_delim, L_title, L_blank, L_delim>>
SiteDocs == {DocEmpty, DocBad, DocBlank}

EnvOk == [pandoc |-> TRUE, srcdir |-> TRUE, config |-> "ok"]
Envs ==
    {EnvOk,
     [pandoc |-> FALSE, srcdir |-> TRUE, config |-> "ok"],
     [pandoc |-> TRUE, srcdir |-> FALSE, config |-> "missing"],
     [pandoc |-> TRUE, srcdir |-> TRUE, config |-> "missing"],
     [pandoc |-> TRUE, srcdir |-> TRUE, config |-> "nourl"]}

InitDst ==
    /\ dstDir = FALSE
    /\ index = NoFile
    /\ outStyle = NoFile
    /\ postsDir = FALSE
    /\ htmlDir = [p \in Posts |-> FALSE]
    /\ page = [p \in Posts |-> NoFile]
    /\ outAsset = [p \in Posts |-> NoFile]
    /\ outMd = [p \in Posts |-> NoFile]

InitProc ==
    /\ pc = "idle"
    /\ run = 0
    /\ clean = FALSE
    /\ todo = {}
    /\ previews = << >>
    /\ cache = << >>
    /\ warn = NoWarnings
    /\ conv = NoOutcome
    /\ outcome = NoOutcome
    /\ edits = 0
    /\ same = FALSE
    /\ prevOutcome = NoOutcome
    /\ pre = [p \in Posts |-> NoFile]
    /\ preTree = dstVars

Init ==
    /\ now = 0
    /\ env = EnvOk
    /\ entry \in [Posts -> {"dir", "file"}]
    /\ entry["c"] = "file"
    /\ md \in [Posts -> {NoFile} \cup {File(0, d) : d \in SiteDocs}]
    /\ \A p \in Posts : entry[p] = "file" => md[p] = NoFile
    /\ asset = [p \in Posts |-> IF p = "a" /\ entry[p] = "dir"
                                THEN File(0, <<"png">>) ELSE NoFile]
    /\ template = File(0, <<"post.template">>)
    /\ style = File(0, <<"css">>)
    /\ InitDst
    /\ InitProc
    /\ call = NoCall

Next ==
    \/ \E c \in BOOLEAN : build(c)
    \/ \E p \in Posts : home_iter(p)
    \/ home_finish
    \/ \E p \in Posts, rc \in {0, 1} : compile_post(p, rc)
    \/ build_return
    \/ tick
    \/ \E p \in Posts : touch_post(p)
    \/ touch_template
    \/ \E e \in Envs : set_env(e)

Spec == Init /\ [][Next]_vars

(* ---------------------------------------------------------------------- *)
(* The upkeep specification: whole builds of a site of well-formed posts   *)
(* whose assets, posts and config.toml are edited or removed between them  *)
(* ---------------------------------------------------------------------- *)
\* Post "a" has an asset and is the post whose post.md is saved again; post
\* "b", when it is there, changes only with post.template or by removal.
\* config.toml saved again with another text that still has a 'url'
EnvEdited == [pandoc |-> TRUE, srcdir |-> TRUE, config |-> "edited"]

InitUpkeep ==
    /\ now = 0
    /\ env = EnvOk
    /\ entry \in [Posts -> {"dir", "file"}]
    /\ entry["a"] = "dir"
    /\ entry["c"] = "file"
    /\ md = [p \in Posts |-> IF entry[p] = "dir" THEN File(0, DocEmpty) ELSE NoFile]
    /\ asset = [p \in Posts |-> IF p = "a" THEN File(0, <<"png">>) ELSE NoFile]
    /\ template = File(0, <<"post.template">>)
    /\ style = File(0, <<"css">>)
    /\ InitDst
    /\ InitProc
    /\ call = NoCall

NextUpkeep ==
    \/ \E c \in BOOLEAN : build(c)
    \/ \E p \in Posts : home_iter(p)
    \/ home_finish
    \/ \E p \in Posts, rc \in {0, 1} : compile_post(p, rc)
    \/ build_return
    \/ tick
    \/ touch_post("a")
    \/ touch_template
    \/ \E e \in {EnvOk, EnvEdited} : set_env(e)
    \/ \E p \in Posts : touch_asset(p)
    \/ \E p \in Posts : remove_asset(p)
    \/ \E p \in Posts : remove_post(p)

SpecUpkeep == InitUpkeep /\ [][NextUpkeep]_vars

(* ---------------------------------------------------------------------- *)
(* The pass specification: one build process over a site of up to three    *)
(* posts, from the listing of compile_home on, with pages of an earlier    *)
(* build in the destination                                                *)
(* ---------------------------------------------------------------------- *)
OldPage(t) == File(t, <<"earlier build">>)

InitRunning ==
    /\ pc = "home"
    /\ run = 1
    /\ clean = FALSE
    /\ todo = listing
    /\ previews = << >>
    /\ cache = << >>
    /\ warn = NoWarnings
    /\ conv = NoOutcome
    /\ outcome = NoOutcome
    /\ edits = 0
    /\ same = FALSE
    /\ prevOutcome = NoOutcome
    /\ pre = page
    /\ preTree = dstVars

InitPass ==
    /\ now = MaxTime
    /\ env = EnvOk
    /\ entry \in [Posts -> {"dir", "file"}]
    /\ md \in [Posts -> {NoFile} \cup
                 {File(t, d) : t \in 0..MaxTime, d \in SiteDocs}]
    /\ \A p \in Posts : entry[p] = "file" => md[p] = NoFile
    /\ asset = [p \in Posts |-> NoFile]
    /\ template = File(0, <<"post.template">>)
    /\ style = File(0, <<"css">>)
    /\ dstDir = TRUE
    /\ index = NoFile
    /\ outStyle = NoFile
    /\ page \in [Posts -> {NoFile, OldPage(0)}]
    /\ \A p \in Posts : entry[p] = "file" => page[p] = NoFile
    /\ htmlDir = [p \in Posts |-> page[p].exists]
    /\ postsDir = (\E p \in Posts : page[p].exists)
    /\ outAsset = [p \in Posts |-> NoFile]
    /\ outMd = [p \in Posts |-> NoFile]
    /\ InitRunning
    /\ call = NoCall

NextPass ==
    \/ \E p \in Posts : home_iter(p)
    \/ home_finish
    \/ \E p \in Posts, rc \in {0, 1} : compile_post(p, rc)
    \/ build_return

SpecPass == InitPass /\ [][NextPass]_vars

(* ---------------------------------------------------------------------- *)
(* The index specification: compile_home over three entries whose posts    *)
(* carry a date or none                                                    *)
(* ---------------------------------------------------------------------- *)
DocDated(t) == <<L_delim, L_title, L_dated(t), L_delim, L_text>>
DocUndated == <<L_delim, L_title, L_delim, L_text>>

InitIndex ==
    /\ now = MaxTime
    /\ env = EnvOk
    /\ entry \in [Posts -> {"dir", "file"}]
    /\ md \in [Posts -> {NoFile}
                 \cup {File(0, DocDated(t)) : t \in DOMAIN DateTexts}
                 \cup {File(t, DocUndated) : t \in 0..MaxTime}]
    /\ \A p \in Posts : entry[p] = "file" <=> md[p] = NoFile
    /\ asset = [p \in Posts |-> NoFile]
    /\ template = File(0, <<"post.template">>)
    /\ style = File(0, <<"css">>)
    /\ dstDir = TRUE
    /\ index = NoFile
    /\ outStyle = NoFile
    /\ page = [p \in Posts |-> NoFile]
    /\ htmlDir = [p \in Posts |-> FALSE]
    /\ postsDir = FALSE
    /\ outAsset = [p \in Posts |-> NoFile]
    /\ outMd = [p \in Posts |-> NoFile]
    /\ InitRunning
    /\ call = NoCall

NextIndex ==
    \/ \E p \in Posts : home_iter(p)
    \/ home_finish

SpecIndex == InitIndex /\ [][NextIndex]_vars

(* ---------------------------------------------------------------------- *)
(* The function specifications: one call of a function on drawn arguments  *)
(* ---------------------------------------------------------------------- *)
InitQuiet ==
    /\ now = 0
    /\ env = EnvOk
    /\ entry = [p \in Posts |-> "file"]
    /\ md = [p \in Posts |-> NoFile]
    /\ asset = [p \in Posts |-> NoFile]
    /\ template = File(0, <<"post.template">>)
    /\ style = File(0, <<"css">>)
    /\ InitDst
    /\ InitProc

RECURSIVE SeqsUpTo(_, _)
SeqsUpTo(S, n) ==
    IF n = 0 THEN {<< >>}
    ELSE LET shorter == SeqsUpTo(S, n - 1) IN
         shorter \cup {Append(q, e) : q \in shorter, e \in S}

\* the lines a drawn post.md is made of
ExtractLines ==
    {L_delim, L_title, L_date, L_descr, L_image, L_https, L_colons, L_tag,
     L_text, L_blank}

InitExtract ==
    /\ InitQuiet
    /\ \E lines \in SeqsUpTo(ExtractLines, MaxLines), t \in 0..MaxTime :
          call = [fn |-> "load_post_metadata",
                  args |-> [post |-> "a", file |-> File(t, lines)],
                  ret |-> None]

call_load_post_metadata ==
    /\ call.fn = "load_post_metadata"
    /\ call.ret = None
    /\ call' = [call EXCEPT
                  !.ret = Some(load_post_metadata(call.args.post, call.args.file))]
    /\ UNCHANGED <<now, srcVars, dstVars, procVars, histVars>>

SpecExtract == InitExtract /\ [][call_load_post_metadata]_vars

InitOracle ==
    /\ InitQuiet
    /\ \E d \in {NoFile} \cup {File(t, << >>) : t \in 0..MaxStamp},
          srcs \in SeqsUpTo({File(t, << >>) : t \in 0..MaxStamp}, MaxSrcs) \ {<< >>} :
          call = [fn |-> "is_done", args |-> [dst |-> d, srcs |-> srcs], ret |-> None]

call_is_done ==
    /\ call.fn = "is_done"
    /\ call.ret = None
    /\ call' = [call EXCEPT !.ret = Some(is_done(call.args.dst, call.args.srcs))]
    /\ UNCHANGED <<now, srcVars, dstVars, procVars, histVars>>

SpecOracle == InitOracle /\ [][call_is_done]_vars

(* ---------------------------------------------------------------------- *)
(* Properties                                                              *)
(* ---------------------------------------------------------------------- *)
\* a post: a directory of the posts root that holds a post.md
HasPost(p) == entry[p] = "dir" /\ md[p].exists

\* the page of p as the setup of the current process left it
AfterSetup(p) == IF clean THEN NoFile ELSE pre[p]

\* staleness as the specification words it: the destination is missing or
\* some source is strictly newer
Stale(dst, srcs) ==
    \/ ~dst.exists
    \/ \E i \in 1..Len(srcs) : srcs[i].mtime > dst.mtime

\* C1, as claimed: when build runs twice in a row (without --clean) and no
\* source, template or config changed in between, the second run invokes the
\* converter for no post and writes no page, and every post ends Skipped,
\* whatever the outcome of each post in the first run.
C1_Original ==
    (run >= 2 /\ same /\ ~clean) =>
        \A p \in Posts :
            /\ conv[p] = "none"
            /\ outcome[p] \in {"none", "Skipped"}
            /\ (pc = "done" /\ entry[p] = "dir" => outcome[p] = "Skipped")

\* C1, amended: when build runs twice in a row without --clean and nothing
\* changed in between, every post the first run left Written or Skipped is
\* Skipped by the second run: no converter call for it, its page unchanged.
\* (Files are stamped by the clock, so no source is newer than a page
\* written after it.)
C1_Idempotent ==
    (run >= 2 /\ same /\ ~clean) =>
        \A p \in Posts :
            prevOutcome[p] \in {"Written", "Skipped"} =>
                /\ conv[p] = "none"
                /\ outcome[p] \in {"none", "Skipped"}
                /\ page[p] = pre[p]
                /\ (pc = "done" => outcome[p] = "Skipped")

C1_Witness ==
    /\ run = 2 /\ same /\ ~clean /\ pc = "done"
    /\ \E p \in Posts : prevOutcome[p] = "Written" /\ outcome[p] = "Skipped"

\* C2: is_done(D, S) is False exactly when D does not exist or some source of
\* S has a modification time strictly greater than D's; a missing D is stale
\* whatever S is, and a source as old as D leaves D up to date.
C2_Oracle ==
    (call.fn = "is_done" /\ call.ret # None) =>
        /\ call.ret[1] \in {"True", "False"}
        /\ call.ret[1] = "False" <=> Stale(call.args.dst, call.args.srcs)

C2_Witness ==
    /\ call.fn = "is_done" /\ call.ret = Some("True")
    /\ Len(call.args.srcs) >= 2
    /\ \E i \in 1..Len(call.args.srcs) :
          call.args.srcs[i].mtime = call.args.dst.mtime

PreviewPost(pv) == pv.url[2]
EffectiveDate(p) == load_post_metadata(p, md[p]).meta.date[1]

\* C4: when the posts have distinct effective dates, the previews written
\* into index.html are in ascending chronological order of those dates.
C4_Chronological ==
    (index.exists /\ \A p \in listing, q \in listing :
                        p # q => EffectiveDate(p) # EffectiveDate(q)) =>
        \A i \in 1..Len(index.body), j \in 1..Len(index.body) :
            i < j => DateBefore(EffectiveDate(PreviewPost(index.body[i])),
                                EffectiveDate(PreviewPost(index.body[j])))

\* C5: in one build, every (post, field) pair whose field is missing from
\* the frontmatter gets exactly one warning, and no other pair gets any.
C5_OneWarning ==
    pc = "done" =>
        \A p \in listing, f \in Fields :
            warn[p][f] = IF f \in load_post_metadata(p, md[p]).warned THEN 1 ELSE 0

\* the frontmatter block as the specification words it: the lines between a
\* first line "---" and the next line "---" (or the end of the file)
HasColon(line) == \E i \in 1..Len(line) : line[i] = ":"
Opens(lines) == Len(lines) >= 1 /\ strip(lines[1]) = <<"---">>
Closing(lines) ==
    IF \E i \in 2..Len(lines) : strip(lines[i]) = <<"---">>
    THEN CHOOSE i \in 2..Len(lines) :
            /\ strip(lines[i]) = <<"---">>
            /\ \A j \in 2..(i - 1) : strip(lines[j]) # <<"---">>
    ELSE Len(lines) + 1
Block(lines) == IF Opens(lines) THEN SubSeq(lines, 2, Closing(lines) - 1) ELSE << >>
\* key and value of a line: the text before and after its first colon
KeyOf(line) == strip(SubSeq(line, 1, FirstColon(line) - 1))
ValueOf(line) == strip(SubSeq(line, FirstColon(line) + 1, Len(line)))
Supplies(lines, k) ==
    \E i \in 1..Len(Block(lines)) :
        HasColon(Block(lines)[i]) /\ KeyOf(Block(lines)[i]) = <<k>>
LastValue(lines, k) ==
    LET b == Block(lines)
        i == CHOOSE n \in 1..Len(b) :
                /\ HasColon(b[n]) /\ KeyOf(b[n]) = <<k>>
                /\ \A j \in (n + 1)..Len(b) : ~(HasColon(b[j]) /\ KeyOf(b[j]) = <<k>>)
    IN ValueOf(b[i])

Returned == call.fn = "load_post_metadata" /\ call.ret # None
Succeeded == Returned /\ call.ret[1].exc = "none"
DrawnLines == call.args.file.body

\* C6: after a successful extraction title and date are not null; a block
\* without a title gives the placeholder title, a block without a date gives
\* the modification time of post.md, and a warning is printed for exactly the
\* fields the block does not supply (all four for an empty block).
C6_Postcondition ==
    Succeeded =>
        LET m == call.ret[1].meta
            w == call.ret[1].warned
        IN
        /\ m.title # None
        /\ m.date # None
        /\ ~Supplies(DrawnLines, "title") => m.title = Some(NoTitle)
        /\ ~Supplies(DrawnLines, "date") =>
              m.date = Some(fromtimestamp(call.args.file.mtime))
        /\ w = {f \in Fields : ~Supplies(DrawnLines, f)}

C6_Witness ==
    /\ Succeeded
    /\ Opens(DrawnLines) /\ Closing(DrawnLines) = 2
    /\ call.args.file.mtime = 1
    /\ call.ret[1].warned = Fields
    /\ call.ret[1].meta.title = Some(NoTitle)
    /\ call.ret[1].meta.date = Some([y |-> 2024, m |-> 1, d |-> 31])

\* a block of exactly a title line and a date line between two "---" lines
TitleAndDateOnly(lines) ==
    /\ Len(lines) >= 4
    /\ lines[1] = L_delim
    /\ {lines[2], lines[3]} = {L_title, L_date}
    /\ lines[4] = L_delim

\* C7, as claimed: such a post extracts to that title and that date and the
\* extraction prints no warning at all.
C7_Original ==
    (Returned /\ TitleAndDateOnly(DrawnLines)) =>
        /\ call.ret[1].exc = "none"
        /\ call.ret[1].meta.title = Some(<<"Hello">>)
        /\ call.ret[1].meta.date = Some([y |-> 2024, m |-> 1, d |-> 2])
        /\ call.ret[1].warned = {}

\* C7, amended: such a post extracts to that title and that date with no
\* warning for title or date; the block supplying neither description nor
\* image, exactly the description warning and the image warning are printed.
C7_RoundTrip ==
    (Returned /\ TitleAndDateOnly(DrawnLines)) =>
        /\ call.ret[1].exc = "none"
        /\ call.ret[1].meta.title = Some(<<"Hello">>)
        /\ call.ret[1].meta.date = Some([y |-> 2024, m |-> 1, d |-> 2])
        /\ call.ret[1].warned = {"description", "image"}

C7_Witness ==
    /\ Succeeded
    /\ DrawnLines = <<L_delim, L_title, L_date, L_delim>>
    /\ call.ret[1].meta.title = Some(<<"Hello">>)

\* C8: when every line of the block holds a colon (and every date value is a
\* date), extraction raises nothing, and the title is everything after the
\* first colon of the last title line, trimmed, colons included.
C8_FirstColonSplit ==
    ( /\ Returned
      /\ Opens(DrawnLines)
      /\ \A i \in 1..Len(Block(DrawnLines)) :
            LET b == Block(DrawnLines)[i] IN
            /\ HasColon(b)
            /\ KeyOf(b) = <<"date">> => strptime_ok(ValueOf(b)) ) =>
        /\ call.ret[1].exc = "none"
        /\ Supplies(DrawnLines, "title") =>
              call.ret[1].meta.title = Some(LastValue(DrawnLines, "title"))

\* C9: when the block has an image line (and its other lines are plain
\* key: value lines), extraction completes and the image is the value
\* itself if it starts with "https://", and base_url + "/posts/" + post +
\* "/" + value otherwise.
C9_ImageResolution ==
    ( /\ Returned
      /\ Opens(DrawnLines)
      /\ Supplies(DrawnLines, "image")
      /\ \A i \in 1..Len(Block(DrawnLines)) :
            LET b == Block(DrawnLines)[i] IN
            /\ HasColon(b)
            /\ KeyOf(b) # <<"image">> => Len(split(b)) = 2 ) =>
        /\ call.ret[1].exc = "none"
        /\ LET v == LastValue(DrawnLines, "image") IN
           call.ret[1].meta.image =
               Some(IF startswith(v, HttpsPrefix)
                    THEN v
                    ELSE BaseUrl \o <<"/posts/", call.args.post, "/">> \o v)

\* C10: the posts both passes process are exactly the directories of the
\* posts root that hold a post.md, and a directory without post.md does not
\* change how the build ends: the build is not ended by an exception unless
\* the source directory is gone or the frontmatter of some post.md is broken.
C10_Discovery ==
    /\ \A p \in Posts : outcome[p] # "none" => HasPost(p)
    /\ (pc \in {"posts", "done"} /\ edits = 0) =>
          {PreviewPost(index.body[i]) : i \in 1..Len(index.body)}
              = {p \in Posts : HasPost(p)}
    /\ (pc = "raised" /\ edits = 0) =>
          \/ ~env.srcdir
          \/ \E p \in Posts :
                HasPost(p) /\ load_post_metadata(p, md[p]).exc # "none"

(* ---------------------------------------------------------------------- *)
(* The destination before and after the clean step of the running process  *)
(* ---------------------------------------------------------------------- *)
Before ==
    [dstDir |-> preTree[1], index |-> preTree[2], outStyle |-> preTree[3],
     postsDir |-> preTree[4], htmlDir |-> preTree[5], page |-> preTree[6],
     outAsset |-> preTree[7], outMd |-> preTree[8]]

\* the process started with --clean on a destination that existed
Wiped == clean /\ Before.dstDir

\* a file that no step after the clean step has written
Unwritten(f, before) == f = (IF Wiped THEN NoFile ELSE before)

\* no extraction, no conversion and no write has happened in this process
NoBuildWork ==
    /\ cache = << >>
    /\ warn = NoWarnings
    /\ conv = NoOutcome
    /\ outcome = NoOutcome
    /\ Unwritten(index, Before.index)
    /\ Unwritten(outStyle, Before.outStyle)
    /\ \A p \in Posts :
          /\ Unwritten(page[p], Before.page[p])
          /\ Unwritten(outAsset[p], Before.outAsset[p])

\* C11: a process started while pandoc is absent or config.toml has no 'url'
\* ends with exit status 1, and no metadata was extracted, pandoc was not
\* run, and index.html, no page, no asset and no style file was written.
C11_PreFlight ==
    (run >= 1 /\ edits = 0 /\ (~env.pandoc \/ env.config = "nourl")) =>
        (pc = "exit1" /\ NoBuildWork)

\* C11 witness: a site built earlier, then built again after the 'url' key
\* was dropped from config.toml: the process ended with exit status 1.
C11_Witness ==
    /\ pc = "exit1" /\ edits = 0 /\ env.config = "nourl"
    /\ \E p \in Posts : Before.page[p].exists
    /\ NoBuildWork

\* the process has passed the staleness check of p, and nothing was edited
\* since it started
Checked(p) == pc \in {"posts", "done"} /\ edits = 0 /\ outcome[p] # "none"

\* C12: pandoc is run for a post exactly when its page is missing or older
\* than post.md or older than post.template; otherwise the post is Skipped
\* and its page is left as it was.  So a newer post.template converts every
\* post, while a newer asset or an edited config.toml converts none.
C12_RebuildCondition ==
    \A p \in Posts :
        Checked(p) =>
            LET stale == Stale(AfterSetup(p), <<md[p], template>>)
            IN /\ (conv[p] # "none") <=> stale
               /\ stale <=> outcome[p] \in {"Written", "Failed"}
               /\ ~stale => (outcome[p] = "Skipped" /\ page[p] = AfterSetup(p))
               /\ (AfterSetup(p).exists /\ template.mtime > AfterSetup(p).mtime)
                     => conv[p] # "none"
               /\ (/\ AfterSetup(p).exists
                   /\ md[p].mtime <= AfterSetup(p).mtime
                   /\ template.mtime <= AfterSetup(p).mtime)
                     => conv[p] = "none"

\* C12 witness: post "a" was built, its asset was saved again later, and the
\* next build skipped the post without running pandoc.
C12_Witness ==
    /\ Checked("a") /\ ~clean
    /\ Before.page["a"].exists
    /\ asset["a"].mtime > Before.page["a"].mtime
    /\ outcome["a"] = "Skipped" /\ conv["a"] = "none"

\* a frontmatter block with a line that has no colon
Malformed(lines) ==
    \E i \in 1..Len(Block(lines)) : ~HasColon(Block(lines)[i])

\* the setup of the running process passed
SetupPassed ==
    run >= 1 /\ edits = 0 /\ env.pandoc /\ env.srcdir /\ env.config = "ok"

\* C13: when some post of the site has a frontmatter line without a colon
\* (a blank line included), extracting its metadata raises ValueError and the
\* build never gets past the index pass: it writes neither index.html nor
\* any page, and pandoc is not run.
C13_MalformedIsFatal ==
    \A p \in Posts :
        (SetupPassed /\ HasPost(p) /\ Malformed(md[p].body)) =>
            /\ load_post_metadata(p, md[p]).exc = "ValueError"
            /\ pc \in {"home", "raised"}
            /\ conv = NoOutcome /\ outcome = NoOutcome
            /\ Unwritten(index, Before.index)
            /\ \A q \in Posts : Unwritten(page[q], Before.page[q])

\* C13 witness: post "a" is well-formed, post "b" has a blank line inside its
\* block; the build has raised and the destination has no index.html.
C13_Witness ==
    /\ SetupPassed /\ pc = "raised"
    /\ HasPost("a") /\ md["a"].body = DocEmpty
    /\ HasPost("b") /\ md["b"].body = DocBlank
    /\ ~index.exists /\ ~page["a"].exists

\* C14: a build that got past setup and the extraction of the index pass has
\* written index.html in this very run, whether or not any source changed,
\* and its previews have exactly one entry, linking to posts/<id>/, for
\* every directory under the posts root, whatever the state of its page and
\* however its conversion ends.
C14_IndexRegenerated ==
    (pc \in {"posts", "done"} /\ edits = 0) =>
        /\ index.exists
        /\ pc = "posts" => index.mtime = now
        /\ Len(index.body) = Cardinality(listing)
        /\ \A p \in listing :
              \E i \in 1..Len(index.body) : index.body[i].url = <<"posts/", p, "/">>

\* C14 witness: a second build right after a first one, nothing edited in
\* between, one day later: index.html is newer than the one the first build
\* wrote, post "a" is Skipped, and post "b", whose conversion failed both
\* times and which has no page, is in the index.
C14_Witness ==
    /\ pc = "done" /\ edits = 0 /\ same /\ ~clean
    /\ Before.index.exists /\ Before.index.mtime < index.mtime
    /\ outcome["a"] = "Skipped"
    /\ outcome["b"] = "Failed" /\ ~page["b"].exists
    /\ Len(index.body) = 2

C16_AssetSync ==
    \A p \in Posts :
        Checked(p) =>
            LET before == IF Wiped THEN NoFile ELSE Before.outAsset[p]
                stale == asset[p].exists /\ Stale(before, <<asset[p]>>)
            IN /\ htmlDir[p]
               /\ ~outMd[p].exists
               /\ (outAsset[p] # before) <=> stale
               /\ stale => /\ outAsset[p].exists
                           /\ outAsset[p].body = asset[p].body
                           /\ outAsset[p].mtime >= asset[p].mtime

\* C16 witness: the first build of post "a" with a failing conversion: no
\* page, but the output directory was made and the asset copied.
C16_Witness ==
    /\ Checked("a") /\ outcome["a"] = "Failed"
    /\ ~Before.htmlDir["a"] /\ htmlDir["a"]
    /\ ~page["a"].exists
    /\ outAsset["a"].exists /\ outAsset["a"].body = asset["a"].body

\* C17: when the first line of post.md, trimmed, is not "---" (or there is
\* no line at all), extraction succeeds without reading any key, even when a
\* "---" block follows further down: all four fields take their fallbacks,
\* all four warnings are printed and no other key is kept.
C17_NoFrontmatter ==
    (Returned /\ ~Opens(DrawnLines)) =>
        /\ call.ret[1].exc = "none"
        /\ call.ret[1].warned = Fields
        /\ call.ret[1].meta =
              [title |-> Some(NoTitle),
               date |-> Some(fromtimestamp(call.args.file.mtime)),
               description |-> Some(<< >>),
               image |-> Some(<< >>),
               other |-> {}]

\* C17 witness: a blank line, then a block that holds a title: the title of
\* the block is not read.
C17_Witness ==
    /\ Returned
    /\ DrawnLines = <<L_blank, L_delim, L_title, L_delim>>
    /\ call.ret[1].meta.title = Some(NoTitle)
    /\ call.ret[1].warned = Fields

\* some file or directory of the destination is there before the step and
\* gone after it
Deletes ==
    \/ dstDir /\ ~dstDir'
    \/ postsDir /\ ~postsDir'
    \/ index.exists /\ ~index'.exists
    \/ outStyle.exists /\ ~outStyle'.exists
    \/ \E p \in Posts :
          \/ htmlDir[p] /\ ~htmlDir'[p]
          \/ page[p].exists /\ ~page'[p].exists
          \/ outAsset[p].exists /\ ~outAsset'[p].exists
          \/ outMd[p].exists /\ ~outMd'[p].exists

\* the step is the start of a build process with --clean
StartsClean == pc \in Stopped /\ run' = run + 1 /\ clean'

\* C18: no step of a build without --clean deletes a file or a directory of
\* the destination, so what earlier builds wrote for posts and assets that
\* are gone from the source stays; the start of a build with --clean is the
\* only step that deletes, and it leaves no page and no copied asset behind.
C18_NoDeletion ==
    [][/\ Deletes => StartsClean
       /\ StartsClean =>
             /\ ~index'.exists /\ ~outStyle'.exists /\ ~postsDir'
             /\ \A p \in Posts :
                   ~htmlDir'[p] /\ ~page'[p].exists /\ ~outAsset'[p].exists]_vars

\* C18 witness: post "b" was built, then its directory was deleted from the
\* source; a later build without --clean has finished, its index no longer
\* lists "b", and the page of "b" is still in the destination.
C18_Witness ==
    /\ pc = "done" /\ edits = 0 /\ ~clean /\ run >= 2
    /\ entry["b"] = "absent" /\ outcome["b"] = "none"
    /\ Len(index.body) = 1
    /\ page["b"].exists /\ htmlDir["b"]

\* the running process ended in its setup: exit(1) of verify_setup or
\* load_config, or the exception of verify_setup for a missing source
\* directory
SetupFailed ==
    /\ run >= 1 /\ edits = 0
    /\ \/ pc = "exit1"
       \/ pc = "raised" /\ ~env.srcdir

\* C19: after a build, with or without --clean, that ended with a fatal
\* setup error (pandoc missing, source directory missing, config.toml missing
\* or without 'url'), the destination tree is what it was before the build.
C19_FailedSetupFrame ==
    SetupFailed => dstVars = preTree
====
